---- MODULE Spec2Model ----
(***************************************************************************)
(* Task Manager API: users register and log in, and manage their own tasks *)
(* through the /tasks endpoints, authenticated by the x-token header.      *)
(*                                                                         *)
(*   users    the rows of the users table (models.User)                    *)
(*   tasks    the rows of the tasks table (models.Task)                    *)
(*   now      the server clock read by created_at's default                *)
(*   last     the request served last and the response it got              *)
(*   deleted  history: <<user id, task id>> of every delete answered 204   *)
(*   reg      register requests in flight: the step each one has reached   *)
(*                                                                         *)
(* Every handler of app/routers is one action.  Strings that the code      *)
(* formats or parses (the token) are sequences of one-character strings.   *)
(***************************************************************************)
EXTENDS Integers, Sequences, FiniteSets

VARIABLES users, tasks, now, last, deleted, reg

vars == <<users, tasks, now, last, deleted, reg>>

(* ------------------------------ bounds --------------------------------- *)

\* Largest task id the model lets the store assign.
MaxTaskId == 2
\* The server clock (datetime.utcnow) advances by one tick at every insert;
\* no row is inserted once it reads MaxClock.
MaxClock == 4
\* Number of register requests that may be in flight together (SpecRace).
MaxInFlight == 2

(* --------------------------- value domains ----------------------------- *)

\* Python's None, for Optional fields and null JSON values.
None == "<None>"

TaskStatus == {"todo", "in_progress", "done"}
TaskPriority == {"low", "medium", "high"}

TaskIds == 1..MaxTaskId
Workers == 1..MaxInFlight

Max(S) == CHOOSE m \in S : \A x \in S : x <= m

\* INTEGER PRIMARY KEY without AUTOINCREMENT: the store assigns one more than
\* the largest id present, 1 for an empty table.
NextId(rows) ==
    IF rows = {} THEN 1 ELSE Max({r.id : r \in rows}) + 1

(* ------------------------- strings of the token ------------------------ *)

Digits == <<"0", "1", "2", "3", "4", "5", "6", "7", "8", "9">>
IsDigit(c) == \E i \in 1..10 : Digits[i] = c
DigitVal(c) == (CHOOSE i \in 1..10 : Digits[i] = c) - 1

\* str(n) of a non-negative integer.
RECURSIVE PyStr(_)
PyStr(n) ==
    IF n < 10 THEN <<Digits[n + 1]>>
    ELSE PyStr(n \div 10) \o <<Digits[(n % 10) + 1]>>

\* Index of the first colon of s at or after i, 0 when there is none.
RECURSIVE FirstColon(_, _)
FirstColon(s, i) ==
    IF i > Len(s) THEN 0
    ELSE IF s[i] = ":" THEN i
    ELSE FirstColon(s, i + 1)

\* s.split(":"): the segments between the colons.
RECURSIVE PySplit(_)
PySplit(s) ==
    LET k == FirstColon(s, 1)
    IN IF k = 0 THEN <<s>>
       ELSE <<SubSeq(s, 1, k - 1)>> \o PySplit(SubSeq(s, k + 1, Len(s)))

\* s.strip() of blanks.
RECURSIVE PyStrip(_)
PyStrip(s) ==
    IF s = <<>> THEN s
    ELSE IF Head(s) = " " THEN PyStrip(Tail(s))
    ELSE IF s[Len(s)] = " " THEN PyStrip(SubSeq(s, 1, Len(s) - 1))
    ELSE s

RECURSIVE DigitsValue(_, _)
DigitsValue(s, acc) ==
    IF s = <<>> THEN acc
    ELSE IF Head(s) = "_" THEN DigitsValue(Tail(s), acc)
    ELSE DigitsValue(Tail(s), 10 * acc + DigitVal(Head(s)))

\* The value of the digits d (underscores allowed between digits), negated
\* when neg; ok = FALSE stands for ValueError.
IntOfDigits(d, neg) ==
    IF /\ d # <<>>
       /\ IsDigit(d[1]) /\ IsDigit(d[Len(d)])
       /\ \A i \in 1..Len(d) : IsDigit(d[i]) \/ d[i] = "_"
       /\ \A i \in 1..(Len(d) - 1) : ~(d[i] = "_" /\ d[i + 1] = "_")
    THEN [ok |-> TRUE,
          val |-> IF neg THEN 0 - DigitsValue(d, 0) ELSE DigitsValue(d, 0)]
    ELSE [ok |-> FALSE, val |-> 0]

IntOfStripped(t) ==
    IF t # <<>> /\ Head(t) \in {"+", "-"}
    THEN IntOfDigits(Tail(t), Head(t) = "-")
    ELSE IntOfDigits(t, FALSE)

\* int(s): blanks around, an optional sign, then digits that single
\* underscores may separate; anything else raises ValueError (ok = FALSE).
PyInt(s) == IntOfStripped(PyStrip(s))

TokenPrefix == <<"u", "s", "e", "r", "_", "i", "d", ":">>

\* login: token = f"user_id:{user.id}"
\* Variant: the id is written one too large.
MakeTokenOffByOne(id) == TokenPrefix \o PyStr(id + 1)
MakeToken(id) == TokenPrefix \o PyStr(id)

(* ------------------------------ requests ------------------------------- *)

\* The x-token header of a request: absent, or present with a value.
NoHeader == [present |-> FALSE, value |-> <<>>]
Header(v) == [present |-> TRUE, value |-> v]

XTokens ==
    { NoHeader,
      Header(<<"a", "b", "c">>),
      Header(TokenPrefix \o <<"x">>),
      Header(TokenPrefix \o <<"1">>),
      Header(<<"i", "d", ":", " ", "2", ":", "z">>) }

RegisterBodies ==
    { [username |-> "alice", email |-> "alice@x.com", password |-> "pw1"],
      [username |-> "bob",   email |-> "bob@x.com",   password |-> "pw2"],
      [username |-> "alice", email |-> "bob@x.com",   password |-> "pw2"],
      [username |-> "bob",   email |-> "alice@x.com", password |-> "pw1"],
      [username |-> "carol", email |-> "carol@x.com", password |-> "pw1"] }

\* The bodies that collide with one another, for the interleaved requests.
RaceBodies == {b \in RegisterBodies : b.username # "carol"}

LoginBodies == [username : {"alice", "bob", "carol"}, password : {"pw1", "pw2"}]

\* JSON bodies of POST /tasks/: a function from the keys present to values.
CreateBodies ==
    { [title |-> "Buy milk"],
      [title |-> "Report", description |-> "quarterly",
       status |-> "in_progress", priority |-> "high", due_date |-> "friday"],
      [description |-> "no title"] }

\* JSON bodies of PUT /tasks/{id}: any subset of the keys, null allowed.
UpdateBodies ==
    { [f \in {} |-> None],
      [status |-> "done"],
      [title |-> "Renamed", description |-> None, due_date |-> "monday"],
      [title |-> None, priority |-> "low"] }

(* ------------------------------ responses ------------------------------ *)

Response(op, hdr, id, req, status, detail, body) ==
    [op |-> op, hdr |-> hdr, id |-> id, req |-> req,
     status |-> status, detail |-> detail, body |-> body]

\* schemas.UserResponse: the row without its password.
UserResponse(u) ==
    [id |-> u.id, username |-> u.username, email |-> u.email,
     created_at |-> u.created_at]

\* schemas.TaskResponse
TaskResponse(t) ==
    [id |-> t.id, title |-> t.title, description |-> t.description,
     status |-> t.status, priority |-> t.priority,
     created_at |-> t.created_at, due_date |-> t.due_date,
     user_id |-> t.user_id]

(* -------------------------------- users -------------------------------- *)

\* register: username is looked up first, then email.
\* Variant: the email is looked up before the username.
RegisterConflictEmailFirst(U, b) ==
    IF \E u \in U : u.email = b.email THEN "Email already registered"
    ELSE IF \E u \in U : u.username = b.username THEN "Username already taken"
    ELSE "none"
RegisterConflict(U, b) ==
    IF \E u \in U : u.username = b.username THEN "Username already taken"
    ELSE IF \E u \in U : u.email = b.email THEN "Email already registered"
    ELSE "none"

\* db.add(user); db.commit(): the users table has unique=True on username and
\* on email, so the INSERT fails (IntegrityError) on a duplicate of either.
\* Variant: the table without its unique constraints.
InsertUserNoUnique(U, b, t) ==
    [ok |-> TRUE,
     row |-> [id |-> NextId(U), username |-> b.username, email |-> b.email,
              password |-> b.password, created_at |-> t]]
InsertUser(U, b, t) ==
    [ok |-> ~\E u \in U : u.username = b.username \/ u.email = b.email,
     row |-> [id |-> NextId(U), username |-> b.username, email |-> b.email,
              password |-> b.password, created_at |-> t]]

\* login: the user of that username, whose stored password must equal the
\* supplied one; both failures raise the same HTTPException.
\* Variant: an unknown username gets a message of its own.
LoginCheckLeaky(U, c) ==
    IF ~\E u \in U : u.username = c.username
    THEN [status |-> 401, detail |-> "Unknown username", uid |-> 0]
    ELSE LET user == CHOOSE u \in U : u.username = c.username
         IN IF user.password # c.password
            THEN [status |-> 401, detail |-> "Invalid username or password",
                  uid |-> 0]
            ELSE [status |-> 200, detail |-> "", uid |-> user.id]
LoginCheck(U, c) ==
    IF ~\E u \in U : u.username = c.username
    THEN [status |-> 401, detail |-> "Invalid username or password", uid |-> 0]
    ELSE LET user == CHOOSE u \in U : u.username = c.username
         IN IF user.password # c.password
            THEN [status |-> 401, detail |-> "Invalid username or password",
                  uid |-> 0]
            ELSE [status |-> 200, detail |-> "", uid |-> user.id]

\* POST /users/register, served without interleaving.
Register(b) ==
    LET conflict == RegisterConflict(users, b)
        ins == InsertUser(users, b, now)
    IN /\ \A w \in Workers : reg[w].pc = "idle"
       /\ (conflict = "none") => (now < MaxClock)
       /\ IF conflict # "none"
          THEN /\ last' = Response("register", NoHeader, 0, b, 400, conflict, None)
               /\ UNCHANGED <<users, now>>
          ELSE IF ~ins.ok
          THEN /\ last' = Response("register", NoHeader, 0, b, 500,
                                   "Internal Server Error", None)
               /\ UNCHANGED <<users, now>>
          ELSE /\ users' = users \cup {ins.row}
               /\ now' = now + 1
               /\ last' = Response("register", NoHeader, 0, b, 201, "",
                                   UserResponse(ins.row))
       /\ UNCHANGED <<tasks, deleted, reg>>

\* POST /users/login
Login(c) ==
    LET r == LoginCheck(users, c)
    IN /\ last' = Response("login", NoHeader, 0, c, r.status, r.detail,
                           IF r.status = 200
                           THEN [token |-> MakeToken(r.uid), user_id |-> r.uid]
                           ELSE None)
       /\ UNCHANGED <<users, tasks, now, deleted, reg>>

(* ---------------------------- auth extraction -------------------------- *)

AuthFailed(status, detail) ==
    [ok |-> FALSE, status |-> status, detail |-> detail, uid |-> 0]

\* Every x-token value a request of the model carries.
TokenValues ==
    {h.value : h \in XTokens} \cup {MakeToken(i) : i \in 1..MaxClock}

\* user_id = int(x_token.split(":")[1]), for each token value: ok = FALSE
\* stands for the IndexError of a value without a second segment and for the
\* ValueError of a second segment that is no integer.
ParsedUserId[v \in TokenValues] ==
    LET segs == PySplit(v)
    IN IF Len(segs) < 2 THEN [ok |-> FALSE, val |-> 0] ELSE PyInt(segs[2])

\* get_current_user.  x_token is Header(...): a request without the header
\* is rejected by the framework's validation (422) before the function runs.
\* IndexError and ValueError are both answered 401 "Invalid token format";
\* an id that no user has is answered 401 "Invalid token".
GetCurrentUser(U, h) ==
    IF ~h.present THEN AuthFailed(422, "Field required")
    ELSE LET n == ParsedUserId[h.value]
         IN IF ~n.ok THEN AuthFailed(401, "Invalid token format")
            ELSE IF ~\E u \in U : u.id = n.val
            THEN AuthFailed(401, "Invalid token")
            ELSE [ok |-> TRUE, status |-> 200, detail |-> "", uid |-> n.val]

(* -------------------------------- tasks -------------------------------- *)

\* Not-null columns of the tasks table that a request body can set.
NotNullColumns == {"title", "status", "priority"}

ServerError(op, h, id, req) ==
    Response(op, h, id, req, 500, "Internal Server Error", None)

\* HTTPException(status_code=404, detail=f"Task {task_id} not found")
NotFound(op, h, id, req) ==
    Response(op, h, id, req, 404, <<"Task", id, "not found">>, None)

\* db.query(Task).filter(Task.id == task_id, Task.user_id == current_user.id)
\* Variant: the query without its user_id filter.
OwnedTasksAnyOwner(T, uid, id) == {t \in T : t.id = id}
OwnedTasks(T, uid, id) == {t \in T : t.id = id /\ t.user_id = uid}

\* db.query(Task).filter(Task.user_id == current_user.id).all(), in rowid order
RECURSIVE RowsInOrder(_)
RowsInOrder(S) ==
    IF S = {} THEN <<>>
    ELSE LET m == CHOOSE t \in S : \A o \in S : t.id <= o.id
         IN <<TaskResponse(m)>> \o RowsInOrder(S \ {m})

\* Variant: the query without its user_id filter.
ListQueryAll(T, uid) == RowsInOrder(T)
ListQuery(T, uid) == RowsInOrder({t \in T : t.user_id = uid})

\* schemas.TaskCreate: title is a required str; status and priority, when
\* given, are members of their enumerations; description and due_date may be
\* null.
ValidCreate(b) ==
    /\ "title" \in DOMAIN b /\ b["title"] # None
    /\ "status" \in DOMAIN b => b["status"] \in TaskStatus
    /\ "priority" \in DOMAIN b => b["priority"] \in TaskPriority

\* task_in.dict(): the keys given, and the schema's defaults for the others.
\* Variant: priority defaults to low.
CreateFieldsLowDefault(b) ==
    [f \in {"title", "description", "status", "priority", "due_date"} |->
        IF f \in DOMAIN b THEN b[f]
        ELSE IF f = "status" THEN "todo"
        ELSE IF f = "priority" THEN "low"
        ELSE None]
CreateFields(b) ==
    [f \in {"title", "description", "status", "priority", "due_date"} |->
        IF f \in DOMAIN b THEN b[f]
        ELSE IF f = "status" THEN "todo"
        ELSE IF f = "priority" THEN "medium"
        ELSE None]

\* for field, value in task_in.dict(exclude_unset=True).items():
\*     setattr(task, field, value)
\* Variant: dict(exclude_none=True), which drops the keys given as null.
ApplyUpdateExcludeNone(t, b) ==
    [f \in DOMAIN t |-> IF f \in DOMAIN b /\ b[f] # None THEN b[f] ELSE t[f]]
ApplyUpdate(t, b) ==
    [f \in DOMAIN t |-> IF f \in DOMAIN b THEN b[f] ELSE t[f]]

\* GET /tasks/
ListTasks(h) ==
    \E a \in {GetCurrentUser(users, h)} :
       /\ last' = IF ~a.ok
                  THEN Response("list", h, 0, None, a.status, a.detail, None)
                  ELSE Response("list", h, 0, None, 200, "",
                                ListQuery(tasks, a.uid))
       /\ UNCHANGED <<users, tasks, now, deleted, reg>>

\* POST /tasks/
CreateTask(h, b) ==
    \E a \in {GetCurrentUser(users, h)} :
    LET f == CreateFields(b)
        row == [id |-> NextId(tasks), title |-> f["title"],
                description |-> f["description"], status |-> f["status"],
                priority |-> f["priority"], created_at |-> now,
                due_date |-> f["due_date"], user_id |-> a.uid]
    IN /\ (a.ok /\ ValidCreate(b)) => (NextId(tasks) <= MaxTaskId /\ now < MaxClock)
       /\ IF ~a.ok
          THEN /\ last' = Response("create", h, 0, b, a.status, a.detail, None)
               /\ UNCHANGED <<tasks, now>>
          ELSE IF ~ValidCreate(b)
          THEN /\ last' = Response("create", h, 0, b, 422, "Field required", None)
               /\ UNCHANGED <<tasks, now>>
          ELSE /\ tasks' = tasks \cup {row}
               /\ now' = now + 1
               /\ last' = Response("create", h, 0, b, 201, "", TaskResponse(row))
       /\ UNCHANGED <<users, deleted, reg>>

\* get_task: the response to GET /tasks/{task_id} over store (U, T).
GetResponse(U, T, h, id) ==
    LET a == GetCurrentUser(U, h)
        found == OwnedTasks(T, a.uid, id)
    IN IF ~a.ok
       THEN Response("get", h, id, None, a.status, a.detail, None)
       ELSE IF found = {} THEN NotFound("get", h, id, None)
       ELSE Response("get", h, id, None, 200, "",
                     TaskResponse(CHOOSE t \in found : TRUE))

\* GET /tasks/{task_id}
GetTask(h, id) ==
    /\ last' = GetResponse(users, tasks, h, id)
    /\ UNCHANGED <<users, tasks, now, deleted, reg>>

\* PUT /tasks/{task_id}.  The commit fails (IntegrityError, answered 500) when
\* a not-null column was set to null, and then nothing is written.
UpdateTask(h, id, b) ==
    \E a \in {GetCurrentUser(users, h)} :
    LET found == OwnedTasks(tasks, a.uid, id)
        task == CHOOSE t \in found : TRUE
        new == ApplyUpdate(task, b)
    IN /\ IF ~a.ok
          THEN /\ last' = Response("update", h, id, b, a.status, a.detail, None)
               /\ UNCHANGED tasks
          ELSE IF found = {}
          THEN /\ last' = NotFound("update", h, id, b)
               /\ UNCHANGED tasks
          ELSE IF \E c \in NotNullColumns : new[c] = None
          THEN /\ last' = ServerError("update", h, id, b)
               /\ UNCHANGED tasks
          ELSE /\ tasks' = (tasks \ {task}) \cup {new}
               /\ last' = Response("update", h, id, b, 200, "", TaskResponse(new))
       /\ UNCHANGED <<users, now, deleted, reg>>

\* DELETE /tasks/{task_id}
DeleteTask(h, id) ==
    \E a \in {GetCurrentUser(users, h)} :
    LET found == OwnedTasks(tasks, a.uid, id)
        task == CHOOSE t \in found : TRUE
    IN /\ IF ~a.ok
          THEN /\ last' = Response("delete", h, id, None, a.status, a.detail, None)
               /\ UNCHANGED <<tasks, deleted>>
          ELSE IF found = {}
          THEN /\ last' = NotFound("delete", h, id, None)
               /\ UNCHANGED <<tasks, deleted>>
          ELSE /\ tasks' = tasks \ {task}
               /\ deleted' = deleted \cup {<<a.uid, id>>}
               /\ last' = Response("delete", h, id, None, 204, "", None)
       /\ UNCHANGED <<users, now, reg>>

(* --------------------------- the specification ------------------------- *)

Idle == [pc |-> "idle", body |-> None]

Init ==
    /\ users = {}
    /\ tasks = {}
    /\ now = 0
    /\ deleted = {}
    /\ reg = [w \in Workers |-> Idle]
    /\ last = Response("none", NoHeader, 0, None, 0, "", None)

\* Every request of the service, over the given sets of inputs.
Serve(RB, LB, TK, CB, UB) ==
    \/ \E b \in RB : Register(b)
    \/ \E c \in LB : Login(c)
    \/ \E h \in TK : ListTasks(h)
    \/ \E h \in TK, b \in CB : CreateTask(h, b)
    \/ \E h \in TK, id \in TaskIds : GetTask(h, id)
    \/ \E h \in TK, id \in TaskIds, b \in UB : UpdateTask(h, id, b)
    \/ \E h \in TK, id \in TaskIds : DeleteTask(h, id)

Alice == [username |-> "alice", email |-> "alice@x.com", password |-> "pw1"]
Bob == [username |-> "bob", email |-> "bob@x.com", password |-> "pw2"]
TokenOne == Header(TokenPrefix \o <<"1">>)
TokenTwo == Header(<<"i", "d", ":", " ", "2", ":", "z">>)
BuyMilk == [title |-> "Buy milk"]
SetDone == [status |-> "done"]

\* Two users and their tasks.
Next ==
    Serve({Alice, Bob}, {[username |-> "alice", password |-> "pw1"]},
          {TokenOne, TokenTwo}, {BuyMilk}, {SetDone})

Spec == Init /\ [][Next]_vars

\* Registration and login with every body, and the token presented.
NextUsers ==
    \/ \E b \in RegisterBodies : Register(b)
    \/ \E c \in LoginBodies : Login(c)
    \/ \E h \in XTokens \cup {Header(MakeToken(u.id)) : u \in users} :
           ListTasks(h)

SpecUsers == Init /\ [][NextUsers]_vars

\* One user, every create and update body.
NextFields ==
    Serve({Alice}, {[username |-> "alice", password |-> "pw1"]},
          {TokenOne}, CreateBodies, UpdateBodies)

SpecFields == Init /\ [][NextFields]_vars

\* One user, every x-token header on every /tasks endpoint.
NextAuth ==
    Serve({Alice}, {[username |-> "alice", password |-> "pw1"]},
          XTokens, {BuyMilk, [description |-> "no title"]}, {SetDone})

SpecAuth == Init /\ [][NextAuth]_vars

(* ------------------- register, with its steps interleaved -------------- *)

\* register's first query: db.query(User).filter(User.username == ...).first()
RegCheckUsername(w, b) ==
    /\ reg[w].pc = "idle"
    /\ IF \E u \in users : u.username = b.username
       THEN /\ last' = Response("register", NoHeader, 0, b, 400,
                                "Username already taken", None)
            /\ UNCHANGED reg
       ELSE /\ reg' = [reg EXCEPT ![w] = [pc |-> "email", body |-> b]]
            /\ UNCHANGED last
    /\ UNCHANGED <<users, tasks, now, deleted>>

\* register's second query: db.query(User).filter(User.email == ...).first()
RegCheckEmail(w) ==
    /\ reg[w].pc = "email"
    /\ IF \E u \in users : u.email = reg[w].body.email
       THEN /\ last' = Response("register", NoHeader, 0, reg[w].body, 400,
                                "Email already registered", None)
            /\ reg' = [reg EXCEPT ![w] = Idle]
       ELSE /\ reg' = [reg EXCEPT ![w] = [pc |-> "commit", body |-> reg[w].body]]
            /\ UNCHANGED last
    /\ UNCHANGED <<users, tasks, now, deleted>>

\* db.add(user); db.commit(); db.refresh(user)
RegCommit(w) ==
    LET ins == InsertUser(users, reg[w].body, now)
    IN /\ reg[w].pc = "commit"
       /\ ins.ok => now < MaxClock
       /\ IF ~ins.ok
          THEN /\ last' = Response("register", NoHeader, 0, reg[w].body, 500,
                                   "Internal Server Error", None)
               /\ UNCHANGED <<users, now>>
          ELSE /\ users' = users \cup {ins.row}
               /\ now' = now + 1
               /\ last' = Response("register", NoHeader, 0, reg[w].body, 201, "",
                                   UserResponse(ins.row))
       /\ reg' = [reg EXCEPT ![w] = Idle]
       /\ UNCHANGED <<tasks, deleted>>

NextRace ==
    \/ \E w \in Workers, b \in RaceBodies : RegCheckUsername(w, b)
    \/ \E w \in Workers : RegCheckEmail(w)
    \/ \E w \in Workers : RegCommit(w)

SpecRace == Init /\ [][NextRace]_vars

(* ================================ claims =============================== *)

(* C4: in every reachable state no two Users share a username and no two   *)
(* share an email, also when the check and insert steps of two register    *)
(* requests interleave.                                                    *)
C4_UsersUnique ==
    \A u \in users, v \in users :
        u # v => /\ u.username # v.username
                 /\ u.email # v.email
                 /\ u.id # v.id

\* A register request whose checks both passed lost the race: its insert was
\* refused because another request had taken the username or email meanwhile.
C4_Witness ==
    /\ last.op = "register"
    /\ last.status = 500
    /\ \E u \in users : u.username = last.req.username \/ u.email = last.req.email

(* ----------------------------------------------------------------------- *)

TaskOps == {"list", "create", "get", "update", "delete"}

\* The user a request's x-token header resolves to.
Caller(U, h) == GetCurrentUser(U, h)

C9_ListExact ==
    [][(last'.op = "list" /\ Caller(users, last'.hdr).ok)
          => LET mine == {t \in tasks : t.user_id = Caller(users, last'.hdr).uid}
             IN /\ last'.status = 200
                /\ {last'.body[i] : i \in 1..Len(last'.body)}
                       = {TaskResponse(t) : t \in mine}
                /\ Len(last'.body) = Cardinality(mine)
                /\ UNCHANGED <<users, tasks>>]_vars

\* A list that returned the caller's task while another user's task exists.
C9_Witness ==
    /\ last.op = "list"
    /\ last.status = 200
    /\ Len(last.body) >= 1
    /\ \E t \in tasks : t.user_id # Caller(users, last.hdr).uid

(* C7: once the owner's delete of task id N has succeeded, every later get *)
(* of id N by that owner answers 404, whatever happened in between.        *)
C7_DeleteIrreversible ==
    \A p \in deleted :
        \A h \in XTokens :
            (Caller(users, h).ok /\ Caller(users, h).uid = p[1])
                => GetResponse(users, tasks, h, p[2]).status = 404

(* ----------------------------------------------------------------------- *)

UpdatableFields == {"title", "description", "status", "priority", "due_date"}

\* The task of id `id` that the caller of header h owns, as a set.
Owned(T, U, h, id) == OwnedTasks(T, Caller(U, h).uid, id)

\* The stored row equals the old one except that every key of the body has
\* the body's value.
UpdatedAsRequested(old, new, b) ==
    /\ \A f \in UpdatableFields :
           new[f] = IF f \in DOMAIN b THEN b[f] ELSE old[f]
    /\ new.id = old.id
    /\ new.created_at = old.created_at
    /\ new.user_id = old.user_id

NullsRequired(b) == \E f \in DOMAIN b \cap NotNullColumns : b[f] = None

C8_CreateThenGet ==
    [][/\ (/\ last'.op = "create"
           /\ Caller(users, last'.hdr).ok
           /\ ValidCreate(last'.req))
          => /\ last'.status = 201
             /\ \A f \in DOMAIN last'.req : last'.body[f] = last'.req[f]
             /\ "status" \notin DOMAIN last'.req => last'.body.status = "todo"
             /\ "priority" \notin DOMAIN last'.req
                    => last'.body.priority = "medium"
             /\ "description" \notin DOMAIN last'.req
                    => last'.body.description = None
             /\ "due_date" \notin DOMAIN last'.req => last'.body.due_date = None
             /\ last'.body.user_id = Caller(users, last'.hdr).uid
             /\ LET g == GetResponse(users', tasks', last'.hdr, last'.body.id)
                IN g.status = 200 /\ g.body = last'.body
       /\ \A t \in tasks :
            ~(/\ last'.op \in {"update", "delete"}
              /\ last'.id = t.id
              /\ last'.status \in {200, 204}
              /\ Caller(users, last'.hdr).uid = t.user_id)
            => LET h == Header(MakeToken(t.user_id))
               IN /\ GetResponse(users, tasks, h, t.id).status = 200
                  /\ GetResponse(users', tasks', h, t.id)
                         = GetResponse(users, tasks, h, t.id)]_vars

\* A get that returned a task as it was created from a body with the title
\* alone.
C8_Witness ==
    /\ last.op = "get"
    /\ last.status = 200
    /\ last.body.title = "Buy milk"
    /\ last.body.status = "todo"
    /\ last.body.priority = "medium"
    /\ last.body.description = None
    /\ last.body.due_date = None

(* C2: on every /tasks endpoint a request whose x-token header is missing, *)
(* has no integer second segment, or names no existing user is answered    *)
(* 401, whether or not the task id exists, and changes nothing stored.     *)
TokenRejected(U, h) ==
    \/ ~h.present
    \/ ~ParsedUserId[h.value].ok
    \/ ~\E u \in U : u.id = ParsedUserId[h.value].val

C2_Unauthorized ==
    [][(last'.op \in TaskOps /\ TokenRejected(users, last'.hdr))
          => /\ last'.status = 401
             /\ UNCHANGED <<users, tasks>>]_vars

\* What holds of the code: the same, for requests that carry the header; a
\* request without it is answered 422.
C2_UnauthorizedWithHeader ==
    [][(last'.op \in TaskOps /\ TokenRejected(users, last'.hdr))
          => /\ last'.status = IF last'.hdr.present THEN 401 ELSE 422
             /\ UNCHANGED <<users, tasks>>]_vars

(* ----------------------------------------------------------------------- *)

(* C3: a register request that reuses the username or the email of a       *)
(* registered user is answered 400 and creates no User; the error names    *)
(* the username when the username collides, also when the email collides   *)
(* too, and the email otherwise.                                           *)
C3_RegisterConflict ==
    [][(/\ last'.op = "register"
        /\ \E u \in users : \/ u.username = last'.req.username
                            \/ u.email = last'.req.email)
          => /\ last'.status = 400
             /\ users' = users
             /\ last'.detail =
                    IF \E u \in users : u.username = last'.req.username
                    THEN "Username already taken"
                    ELSE "Email already registered"]_vars

\* A request whose username is one user's and whose email is another's was
\* refused for the username.
C3_Witness ==
    /\ last.op = "register"
    /\ last.status = 400
    /\ last.detail = "Username already taken"
    /\ \E u \in users, v \in users :
           /\ u # v
           /\ u.username = last.req.username
           /\ v.email = last.req.email

\* Every header the model sends, and the token login issues to each user id.
AllTokens == XTokens \cup {Header(MakeToken(i)) : i \in 1..MaxClock}

(* C5: the token of a successful login is accepted by auth extraction and  *)
(* resolves to the user that logged in, whose id login returned; and a     *)
(* header that resolves to a user resolves to that same user ever after.   *)
C5_TokenRoundTrip ==
    [][/\ (last'.op = "login" /\ last'.status = 200)
          => LET a == Caller(users', Header(last'.body.token))
             IN /\ a.ok
                /\ a.uid = last'.body.user_id
                /\ \E u \in users' : /\ u.id = a.uid
                                     /\ u.username = last'.req.username
                                     /\ u.password = last'.req.password
       /\ \A h \in AllTokens :
            Caller(users, h).ok
                => /\ Caller(users', h) = Caller(users, h)
                   /\ \A u \in users : u.id = Caller(users, h).uid
                                           => u \in users']_vars

\* The token login issues to the second user was presented and accepted.
C5_Witness ==
    /\ last.op = "list"
    /\ last.status = 200
    /\ last.hdr = Header(MakeToken(2))
    /\ \E u \in users : u.id = 2

(* C10: login answers 200 exactly when a User of that username exists and  *)
(* its stored password equals the one supplied; otherwise, for an unknown  *)
(* username and for a wrong password alike, it answers the same 401 with   *)
(* the same message and no body; no login changes the store.               *)
C10_Login ==
    [][(last'.op = "login")
          => LET good == \E u \in users : /\ u.username = last'.req.username
                                          /\ u.password = last'.req.password
             IN /\ last'.status = 200 <=> good
                /\ ~good => /\ last'.status = 401
                            /\ last'.detail = "Invalid username or password"
                            /\ last'.body = None
                /\ UNCHANGED <<users, tasks>>]_vars

\* A login with a registered username and a wrong password, refused while
\* the other username is still unregistered.
C10_Witness ==
    /\ last.op = "login"
    /\ last.status = 401
    /\ \E u \in users : u.username = last.req.username
    /\ Cardinality(users) = 1

====
